---- MODULE Spec2Model ----
(***************************************************************************)
(* Model of the core of ODP-Client (odp/client.py, odp/exceptions.py):     *)
(* the lazily cached client-credentials token (ODPClient.token) and the    *)
(* request pipeline (ODPClient._request) that turns every outcome of an    *)
(* API call into a return value or an exception.                           *)
(*                                                                         *)
(* One ODPClient instance is modelled.  Callers are the elements of        *)
(* Threads; Spec lets them use the instance one call at a time, ConcSpec   *)
(* lets their calls overlap.  The network (auth server, API server) is the *)
(* environment: each call to it ends in one of the outcomes the libraries  *)
(* can deliver to the code.                                                *)
(***************************************************************************)
EXTENDS Integers, Sequences, FiniteSets, TLC

----------------------------------------------------------------------------
(* Bounds of the model *)

\* _request invocations over the life of the instance
MaxCalls == 3

\* the callers of the instance: two are what an overlap of calls takes
Threads == {"t1", "t2"}

----------------------------------------------------------------------------
(* Values *)

\* Python's None for the string-valued settings
None == "None"
\* self._token = None: no token cached
NoToken == 0
\* status_code of an exception constructed without one
NoStatus == 0

public_url == "https://odp/api"
AdminUrls == {None, "", "https://odp/admin"}
Methods == {"GET", "POST", "PUT"}

\* statuses an HTTP response can carry, around the boundaries of every range
Statuses == {200, 300, 399, 400, 403, 499, 500, 599, 600}

\* response bodies, as strings of characters: empty, JSON numbers and arrays with
\* and without whitespace, truncated JSON, plain text
Bodies ==
    { <<>>,
      <<"1">>,
      <<" ", "1", "1", " ">>,
      <<"[", " ", "1", "]">>,
      <<"[", "1">>,
      <<"o", "o", "p", "s">> }
Responses == [status : Statuses, body : Bodies]
NoResponse == [status |-> NoStatus, body |-> <<>>]

\* what r.json() raises on an undecodable body: ValueError in requests < 2.27,
\* requests.JSONDecodeError (a RequestException and a ValueError) from 2.27 on
JsonErrorClasses == {"ValueError", "JSONDecodeError"}

----------------------------------------------------------------------------
(* JSON decoding of a body: Response.json() *)

Strip(s) ==
    LET idx == {i \in 1..Len(s) : s[i] # " "}
        Min(S) == CHOOSE i \in S : \A j \in S : i <= j
        Max(S) == CHOOSE i \in S : \A j \in S : i >= j
    IN  IF idx = {} THEN <<>> ELSE SubSeq(s, Min(idx), Max(idx))

AllDigits(s) == Len(s) > 0 /\ \A i \in 1..Len(s) : s[i] = "1"

RECURSIVE IsJson(_)
IsJson(body) ==
    LET s == Strip(body)
    IN  \/ AllDigits(s)
        \/ /\ Len(s) >= 2
           /\ s[1] = "["
           /\ s[Len(s)] = "]"
           /\ LET inner == Strip(SubSeq(s, 2, Len(s) - 1))
              IN  inner = <<>> \/ IsJson(inner)

RECURSIVE Number(_)
Number(s) == IF s = <<>> THEN 0 ELSE 10 * Number(SubSeq(s, 1, Len(s) - 1)) + 1

RECURSIVE JsonValue(_)
JsonValue(body) ==
    LET s == Strip(body)
    IN  IF AllDigits(s)
        THEN [type |-> "number", n |-> Number(s), items |-> <<>>]
        ELSE LET inner == Strip(SubSeq(s, 2, Len(s) - 1))
             IN  [type |-> "array", n |-> 0,
                  items |-> IF inner = <<>> THEN <<>> ELSE <<JsonValue(inner)>>]

NoJson == [type |-> "none", n |-> 0, items |-> <<>>]

\* a payload carried by a return value or by error_detail
Decoded(body) == [form |-> "json", json |-> JsonValue(body), text |-> <<>>]
RawText(body) == [form |-> "text", json |-> NoJson, text |-> body]
\* error_detail defaulted to str(args)
StrArgs == [form |-> "args", json |-> NoJson, text |-> <<>>]
NoPayload == [form |-> "none", json |-> NoJson, text |-> <<>>]

----------------------------------------------------------------------------
(* Exceptions: odp/exceptions.py *)

ErrorKinds == {"ODPException", "ODPClientError", "ODPServerError", "ODPAuthError"}

\* ODPException.__init__ with both keyword arguments given
ODPExceptionInit(kind, status_code, error_detail) ==
    [kind |-> kind, status_code |-> status_code, error_detail |-> error_detail]

\* ODPException.__init__ without error_detail: it defaults to str(args)
ODPExceptionDefault(kind, status_code) ==
    ODPExceptionInit(kind, status_code, StrArgs)

\* raise ODPException("ODP Admin API URL is required")
AdminUrlRequired == ODPExceptionDefault("ODPException", NoStatus)

\* variant: the two except clauses of token raise each other's exception
TokenOAuthErrorSwapped == ODPExceptionDefault("ODPServerError", 503)

\* token: except OAuthError -> ODPAuthError(*e.args, status_code=403)
TokenOAuthError == ODPExceptionDefault("ODPAuthError", 403)

\* token: except requests.RequestException -> ODPServerError(*e.args, status_code=503)
TokenRequestException == ODPExceptionDefault("ODPServerError", 503)

\* variant: the transport failure of the API call reported as a plain 500
ApiRequestException500 == ODPExceptionDefault("ODPServerError", 500)

\* _request: except requests.RequestException -> ODPServerError(*e.args, status_code=503)
ApiRequestException == ODPExceptionDefault("ODPServerError", 503)

\* an exception of the libraries that _request lets through
Uncaught(class) == [kind |-> class, status_code |-> NoStatus, error_detail |-> NoPayload]

----------------------------------------------------------------------------
(* The pure steps of _request *)

\* variant: the test of the admin URL dropped
FalsyNever(url) == FALSE

\* not (server_url := self.admin_url): None and the empty string are both falsy
Falsy(url) == url = None \/ url = ""

\* if method in ('POST', 'PUT'): headers['Content-Type'] = 'application/json'
ContentType(method) == IF method \in {"POST", "PUT"} THEN "application/json" ELSE None

\* variant: the cache test dropped, a token is fetched on every use
TokenIsNoneAlways(tok) == TRUE

\* variant: the cache test inverted
TokenIsNoneInverted(tok) == tok # NoToken

\* if self._token is None
TokenIsNone(tok) == tok = NoToken

\* r.raise_for_status(): requests raises HTTPError for 400 <= status < 600 only
RaisesHTTPError(status) == 400 <= status /\ status < 600

\* variant: the range test for 4xx placed before the test for 403
ExcClassRangeFirst(status_code) ==
    IF 400 <= status_code /\ status_code < 500 THEN "ODPClientError"
    ELSE IF status_code = 403 THEN "ODPAuthError"
    ELSE IF 500 <= status_code /\ status_code < 600 THEN "ODPServerError"
    ELSE "ODPException"

\* the if/elif chain choosing the exception class of an HTTPError
ExcClass(status_code) ==
    IF status_code = 403 THEN "ODPAuthError"
    ELSE IF 400 <= status_code /\ status_code < 500 THEN "ODPClientError"
    ELSE IF 500 <= status_code /\ status_code < 600 THEN "ODPServerError"
    ELSE "ODPException"

\* try: error_detail = e.response.json()  except ValueError: e.response.text
ErrorDetail(body) == IF IsJson(body) THEN Decoded(body) ELSE RawText(body)

\* raise exc(*e.args, status_code=status_code, error_detail=error_detail)
HTTPErrorRaised(resp) ==
    ODPExceptionInit(ExcClass(resp.status), resp.status, ErrorDetail(resp.body))

\* return r.json() on an undecodable body: the decode error is a RequestException
\* (caught by the second except clause) or a plain ValueError (caught by none)
JsonErrorRaised(class) ==
    IF class = "JSONDecodeError" THEN ApiRequestException ELSE Uncaught("ValueError")

\* what _request delivers for a response: [kind, status_code, payload]
Deliver(resp, class) ==
    IF RaisesHTTPError(resp.status)
    THEN LET e == HTTPErrorRaised(resp)
         IN  [kind |-> e.kind, status_code |-> e.status_code, payload |-> e.error_detail]
    ELSE IF IsJson(resp.body)
    THEN [kind |-> "return", status_code |-> NoStatus, payload |-> Decoded(resp.body)]
    ELSE LET e == JsonErrorRaised(class)
         IN  [kind |-> e.kind, status_code |-> e.status_code, payload |-> e.error_detail]

----------------------------------------------------------------------------
(* State *)

VARIABLES
    admin_url,      \* self.admin_url, read from the environment by __init__
    json_error,     \* the class r.json() raises in the installed requests
    _token,         \* self._token
    pc,             \* per caller: "idle", "token" (in fetch_token), "http" (in requests.request)
    req,            \* per caller: the request being built or in flight
    net,            \* per caller: network calls made by its current invocation
    calls,          \* _request invocations so far
    grants,         \* grant requests sent to the auth server so far
    failed,         \* grant requests that ended in an exception
    assigned,       \* the values assigned to self._token, in order
    overlap,        \* a caller saw the absent cache while another's grant was in flight
    outcome         \* what the last step delivered to its caller, if it ended an invocation

vars == <<admin_url, json_error, _token, pc, req, net, calls, grants, failed,
          assigned, overlap, outcome>>

NoReq == [method |-> None, server_url |-> None, bearer |-> NoToken, content_type |-> None]
NoNet == [grants |-> 0, apis |-> 0]
NoOutcome ==
    [kind |-> "none", status_code |-> NoStatus, payload |-> NoPayload,
     stage |-> "none", event |-> "none", response |-> NoResponse,
     server_url |-> None, net |-> NoNet, bearer |-> NoToken, token_before |-> NoToken]

\* the record of an invocation of caller t that ends in this step: what was delivered
\* (d), where it ended (stage), what the network did (event, resp), the URL the call
\* resolved (url), its network calls (n), the token it sent, the cache before the step
Ended(t, d, stage, event, resp, url, n) ==
    [kind |-> d.kind, status_code |-> d.status_code, payload |-> d.payload,
     stage |-> stage, event |-> event, response |-> resp,
     server_url |-> url, net |-> n, bearer |-> req[t].bearer, token_before |-> _token]

Raised(e) == [kind |-> e.kind, status_code |-> e.status_code, payload |-> e.error_detail]

\* ODPClient.__init__: the settings are read once, no token is cached
Init ==
    /\ admin_url \in AdminUrls
    /\ json_error \in JsonErrorClasses
    /\ _token = NoToken
    /\ pc = [t \in Threads |-> "idle"]
    /\ req = [t \in Threads |-> NoReq]
    /\ net = [t \in Threads |-> NoNet]
    /\ calls = 0
    /\ grants = 0
    /\ failed = 0
    /\ assigned = <<>>
    /\ overlap = FALSE
    /\ outcome = NoOutcome

----------------------------------------------------------------------------
(* _request and the token property, one action per path *)

\* the headers dict and the requests.request call
SendApi(t, method, server_url, tok) ==
    /\ req' = [req EXCEPT ![t] = [method |-> method, server_url |-> server_url,
                                  bearer |-> tok, content_type |-> ContentType(method)]]
    /\ pc' = [pc EXCEPT ![t] = "http"]

\* admin_api and no admin URL: raise before anything else
RequestAdminUrlMissing(t, method) ==
    /\ pc[t] = "idle"
    /\ calls < MaxCalls
    /\ Falsy(admin_url)
    /\ calls' = calls + 1
    /\ net' = [net EXCEPT ![t] = NoNet]
    /\ outcome' = Ended(t, Raised(AdminUrlRequired), "config", "none", NoResponse,
                        admin_url, NoNet)
    /\ UNCHANGED <<admin_url, json_error, _token, pc, req, grants, failed, assigned, overlap>>

\* the token is cached: self.token returns it and the API call is sent
RequestWithCachedToken(t, method, admin_api) ==
    /\ pc[t] = "idle"
    /\ calls < MaxCalls
    /\ ~(admin_api /\ Falsy(admin_url))
    /\ ~TokenIsNone(_token)
    /\ calls' = calls + 1
    /\ net' = [net EXCEPT ![t] = [grants |-> 0, apis |-> 1]]
    /\ SendApi(t, method, IF admin_api THEN admin_url ELSE public_url, _token)
    /\ outcome' = NoOutcome
    /\ UNCHANGED <<admin_url, json_error, _token, grants, failed, assigned, overlap>>

\* no token is cached: self.token calls fetch_token
RequestFetchToken(t, method, admin_api) ==
    /\ pc[t] = "idle"
    /\ calls < MaxCalls
    /\ ~(admin_api /\ Falsy(admin_url))
    /\ TokenIsNone(_token)
    /\ calls' = calls + 1
    /\ grants' = grants + 1
    /\ net' = [net EXCEPT ![t] = [grants |-> 1, apis |-> 0]]
    /\ req' = [req EXCEPT ![t] = [method |-> method,
                                  server_url |-> IF admin_api THEN admin_url ELSE public_url,
                                  bearer |-> NoToken, content_type |-> None]]
    /\ pc' = [pc EXCEPT ![t] = "token"]
    /\ overlap' = (overlap \/ \E u \in Threads \ {t} : pc[u] = "token")
    /\ outcome' = NoOutcome
    /\ UNCHANGED <<admin_url, json_error, _token, failed, assigned>>

\* fetch_token returns a token: it is cached, returned, and the API call is sent
FetchTokenReturns(t) ==
    /\ pc[t] = "token"
    /\ LET tok == Len(assigned) + 1
       IN  /\ _token' = tok
           /\ assigned' = Append(assigned, tok)
           /\ SendApi(t, req[t].method, req[t].server_url, tok)
    /\ net' = [net EXCEPT ![t].apis = @ + 1]
    /\ outcome' = NoOutcome
    /\ UNCHANGED <<admin_url, json_error, calls, grants, failed, overlap>>

\* fetch_token raises OAuthError: the grant was rejected
FetchTokenOAuthError(t) ==
    /\ pc[t] = "token"
    /\ failed' = failed + 1
    /\ pc' = [pc EXCEPT ![t] = "idle"]
    /\ req' = [req EXCEPT ![t] = NoReq]
    /\ net' = [net EXCEPT ![t] = NoNet]
    /\ outcome' = Ended(t, Raised(TokenOAuthError), "token", "oauth_error", NoResponse,
                        req[t].server_url, net[t])
    /\ UNCHANGED <<admin_url, json_error, _token, calls, grants, assigned, overlap>>

\* fetch_token raises a RequestException: the auth server was not reached
FetchTokenRequestException(t) ==
    /\ pc[t] = "token"
    /\ failed' = failed + 1
    /\ pc' = [pc EXCEPT ![t] = "idle"]
    /\ req' = [req EXCEPT ![t] = NoReq]
    /\ net' = [net EXCEPT ![t] = NoNet]
    /\ outcome' = Ended(t, Raised(TokenRequestException), "token", "request_exception",
                        NoResponse, req[t].server_url, net[t])
    /\ UNCHANGED <<admin_url, json_error, _token, calls, grants, assigned, overlap>>

\* requests.request raises a RequestException: no response was obtained
ApiRequestFails(t) ==
    /\ pc[t] = "http"
    /\ pc' = [pc EXCEPT ![t] = "idle"]
    /\ req' = [req EXCEPT ![t] = NoReq]
    /\ net' = [net EXCEPT ![t] = NoNet]
    /\ outcome' = Ended(t, Raised(ApiRequestException), "api", "request_exception",
                        NoResponse, req[t].server_url, net[t])
    /\ UNCHANGED <<admin_url, json_error, _token, calls, grants, failed, assigned, overlap>>

\* requests.request returns a response: raise_for_status, r.json(), the except clauses
ApiResponse(t, resp) ==
    /\ pc[t] = "http"
    /\ pc' = [pc EXCEPT ![t] = "idle"]
    /\ req' = [req EXCEPT ![t] = NoReq]
    /\ net' = [net EXCEPT ![t] = NoNet]
    /\ outcome' = Ended(t, Deliver(resp, json_error), "api", "response", resp,
                        req[t].server_url, net[t])
    /\ UNCHANGED <<admin_url, json_error, _token, calls, grants, failed, assigned, overlap>>

\* no other caller is inside a call
Serial(t) == \A u \in Threads \ {t} : pc[u] = "idle"

\* the instance is used by one call at a time
Next ==
    \E t \in Threads :
        \/ \E m \in Methods : Serial(t) /\ RequestAdminUrlMissing(t, m)
        \/ \E m \in Methods, a \in BOOLEAN : Serial(t) /\ RequestWithCachedToken(t, m, a)
        \/ \E m \in Methods, a \in BOOLEAN : Serial(t) /\ RequestFetchToken(t, m, a)
        \/ FetchTokenReturns(t)
        \/ FetchTokenOAuthError(t)
        \/ FetchTokenRequestException(t)
        \/ ApiRequestFails(t)
        \/ \E resp \in Responses : ApiResponse(t, resp)

\* the instance is shared and calls overlap
ConcNext ==
    \E t \in Threads :
        \/ \E m \in Methods : RequestAdminUrlMissing(t, m)
        \/ \E m \in Methods, a \in BOOLEAN : RequestWithCachedToken(t, m, a)
        \/ \E m \in Methods, a \in BOOLEAN : RequestFetchToken(t, m, a)
        \/ FetchTokenReturns(t)
        \/ FetchTokenOAuthError(t)
        \/ FetchTokenRequestException(t)
        \/ ApiRequestFails(t)
        \/ \E resp \in Responses : ApiResponse(t, resp)

Spec == Init /\ [][Next]_vars

ConcSpec == Init /\ [][ConcNext]_vars

----------------------------------------------------------------------------
(* Properties *)

\* the class the spec gives a status in 400..599
KindFor(status) ==
    IF status = 403 THEN "ODPAuthError"
    ELSE IF status \in 400..499 THEN "ODPClientError"
    ELSE "ODPServerError"

\* C1: a response with a status in 400..599 raises the error its status alone
\* determines (403 ODPAuthError, other 4xx ODPClientError, 5xx ODPServerError),
\* and the error's status_code is the response's status.
C1_StatusDeterminesError ==
    (outcome.event = "response" /\ outcome.response.status \in 400..599) =>
        /\ outcome.kind = KindFor(outcome.response.status)
        /\ outcome.status_code = outcome.response.status

C1_Witness ==
    /\ outcome.event = "response"
    /\ outcome.response.status = 403
    /\ outcome.kind = "ODPAuthError"
    /\ outcome.status_code = 403

\* C2: once a token fetch has succeeded, the cache field has been assigned exactly
\* once and keeps that token, no grant request is in flight or made again, and every
\* request sent or ended afterwards carries that token, whatever the requests' outcomes.
C2_TokenFetchedOnce ==
    Len(assigned) >= 1 =>
        /\ Len(assigned) = 1
        /\ _token = assigned[1]
        /\ grants = failed + 1
        /\ \A t \in Threads : pc[t] # "token"
        /\ \A t \in Threads : pc[t] = "http" => req[t].bearer = assigned[1]
        /\ outcome.stage = "api" => outcome.bearer = assigned[1]

\* a later request, sent with the cached token, was rejected with 403 and the
\* cache still holds the token
C2_Witness ==
    /\ Len(assigned) = 1
    /\ outcome.event = "response"
    /\ outcome.response.status = 403
    /\ outcome.net.grants = 0
    /\ outcome.bearer = assigned[1]
    /\ _token = assigned[1]

\* C3: a transport failure, of the grant request or of the API call, ends the
\* request with ODPServerError and status_code 503.
C3_TransportFailureIs503 ==
    outcome.event = "request_exception" =>
        /\ outcome.kind = "ODPServerError"
        /\ outcome.status_code = 503

C3_Witness ==
    /\ outcome.event = "request_exception"
    /\ outcome.stage = "api"
    /\ outcome.kind = "ODPServerError"

\* C4: an admin operation on a client without an admin URL raises the generic
\* ODPException at once: no grant request and no API call is made for it, none is
\* ever in flight for it, and the cached token is as it was.
C4_AdminUrlMissingFailsFirst ==
    /\ \A t \in Threads : pc[t] # "idle" => req[t].server_url \notin {None, ""}
    /\ (outcome.kind # "none" /\ outcome.server_url \in {None, ""}) =>
           /\ outcome.kind = "ODPException"
           /\ outcome.net = NoNet
           /\ outcome.event = "none"
           /\ _token = outcome.token_before

\* no admin URL is set, a token is cached, an admin call has just failed
C4_Witness ==
    /\ admin_url = None
    /\ outcome.kind = "ODPException"
    /\ outcome.stage = "config"
    /\ outcome.server_url = None
    /\ _token # NoToken

\* C5: for a response with status >= 400 the raised error's error_detail is the
\* body decoded as JSON when it is JSON, the raw text otherwise.
C5_ErrorDetailJsonOrText ==
    (outcome.event = "response" /\ outcome.response.status >= 400
        /\ outcome.kind # "return") =>
        outcome.payload = IF IsJson(outcome.response.body)
                          THEN Decoded(outcome.response.body)
                          ELSE RawText(outcome.response.body)

\* C6: a grant the auth layer rejects ends the request with ODPAuthError, and no
\* API call has been made by that request.
C6_GrantRejectedIsAuthError ==
    outcome.event = "oauth_error" =>
        /\ outcome.kind = "ODPAuthError"
        /\ outcome.stage = "token"
        /\ outcome.net.apis = 0

C6_Witness ==
    /\ outcome.event = "oauth_error"
    /\ outcome.kind = "ODPAuthError"
    /\ outcome.net = [grants |-> 1, apis |-> 0]

\* C7: every invocation ends by returning the parsed body or by raising one of the
\* four error kinds, and makes at most one grant request and one API call.
C7_EndsInReturnOrOdpError ==
    /\ \A t \in Threads : net[t].grants <= 1 /\ net[t].apis <= 1
    /\ outcome.kind # "none" =>
           /\ outcome.kind \in {"return"} \cup ErrorKinds
           /\ outcome.net.grants <= 1
           /\ outcome.net.apis <= 1

\* C8: a body is returned only for a 2xx response, and a response whose status
\* is neither 2xx nor in 400..599 raises the generic ODPException with that status.
C8_OtherStatusIsGenericError ==
    outcome.event = "response" =>
        /\ outcome.kind = "return" => outcome.response.status \in 200..299
        /\ outcome.response.status \notin (200..299) \cup (400..599) =>
               /\ outcome.kind = "ODPException"
               /\ outcome.status_code = outcome.response.status

\* C9: more grant requests than one plus the failed ones, or a second assignment
\* of the cache, happen only when a call found the cache absent while another
\* call's grant request was in flight.
C9_RedundantGrantOnlyByOverlap ==
    (grants > failed + 1 \/ Len(assigned) > 1) => overlap

\* two grants were made, both succeeded
C9_Witness ==
    /\ grants = 2
    /\ failed = 0
    /\ Len(assigned) = 2
    /\ overlap

\* C10: a failed fetch leaves the cache absent; while it is absent every call in
\* progress is one that made its own grant request; the cache holds a token exactly
\* when some grant request has succeeded; grants number at most one plus the failed.
C10_FailedFetchIsRetried ==
    /\ outcome.stage = "token" => _token = NoToken
    /\ _token = NoToken =>
           \A t \in Threads : pc[t] # "idle" => pc[t] = "token" /\ net[t].grants = 1
    /\ (_token # NoToken) <=>
           (grants - failed - Cardinality({t \in Threads : pc[t] = "token"}) >= 1)
    /\ grants <= failed + 1

\* a fetch failed, a later call fetched again and succeeded
C10_Witness ==
    /\ failed >= 1
    /\ grants = failed + 1
    /\ _token # NoToken

====
